---- MODULE Spec2Model ----
(***************************************************************************)
(* A model of bdk-ffi's Descriptor object (src/bdk-ffi/src/descriptor.rs): *)
(* its nine constructors and its six read operations.  Keys, derivation    *)
(* paths and descriptor strings are symbolic: an extended key is named by  *)
(* the master seed it comes from and the derivation steps applied to it, a *)
(* string is a sequence of tokens, a hash is the term it is the hash of.   *)
(*                                                                         *)
(* And a model of the LightClient object (src/bdk-ffi/src/kyoto.rs): the   *)
(* async calls that reach the underlying client through one tokio Mutex,   *)
(* each call a sequence of steps between its await points.                 *)
(***************************************************************************)
EXTENDS Integers, Sequences, FiniteSets, TLC

VARIABLES
    self,     \* the Descriptor the caller holds (<<>> when none), with how it was made
    ret,      \* what the last call returned to the caller
    pc,       \* "ready", or "panicked" once a call has unwound with a panic
    expanded, \* what the caller saw when it first expanded the descriptor it holds
    client,   \* LightClient's Mutex<Client>: the calls holding its guard, the calls waiting
    calls,    \* each concurrent call on the LightClient: its operation, where it is, its result
    node      \* the underlying client: whether the node runs, the requests it is serving

vars == <<self, ret, pc, expanded, client, calls, node>>

(***************************************************************************)
(* Bounds of the model.                                                    *)
(***************************************************************************)
\* the longest multipath marker <a;b;...> a descriptor text carries
MaxPaths == 3

\* the number of calls that run concurrently on one LightClient
MaxCalls == 3

(***************************************************************************)
(* Networks, keychain roles, BIP32 child numbers and paths.                *)
(***************************************************************************)
Networks == {"Bitcoin", "Testnet", "Signet"}

KeychainKinds == {"External", "Internal"}

\* bitcoin::NetworkKind of a network: the version bytes of an extended key
\* tell mainnet (xprv/xpub) from everything else (tprv/tpub) and no more.
NetworkKind(network) == IF network = "Bitcoin" THEN "Main" ELSE "Test"

Hardened(i) == [i |-> i, h |-> TRUE]

Normal(i) == [i |-> i, h |-> FALSE]

\* the two master seeds of the model and the network kind each is encoded for
Masters == {"K1", "K2"}

MasterNetworkKind(m) == IF m = "K1" THEN "Test" ELSE "Main"

\* bip32::Xpriv of a master seed
MasterXprv(m) == [secret |-> TRUE, master |-> m, at |-> <<>>, network |-> MasterNetworkKind(m)]

\* Xpriv::derive_priv: the key `path` below `xkey`
derive_priv(xkey, path) == [xkey EXCEPT !.at = @ \o path]

\* Xpub::from_priv
from_priv(xprv) == [xprv EXCEPT !.secret = FALSE]

\* Xpriv::fingerprint: the first four bytes of the hash of the key's public key
fingerprint(xkey) == [master |-> xkey.master, at |-> xkey.at]

\* the fingerprint strings a caller passes, and Fingerprint::from_str of each:
\* eight hex digits parse, anything else is an error
FingerprintStrings == {"d1d04177", "73c5da0a", "d1d0417", "zzzzzzzz"}

Fingerprint_from_str(s) ==
    CASE s = "d1d04177" -> [ok |-> TRUE, fp |-> [master |-> "K1", at |-> <<>>]]
      [] s = "73c5da0a" -> [ok |-> TRUE, fp |-> [master |-> "K2", at |-> <<>>]]
      [] OTHER -> [ok |-> FALSE, fp |-> [master |-> "", at |-> <<>>]]

\* the hex string of a master's fingerprint
MasterFingerprintString(m) == IF m = "K1" THEN "d1d04177" ELSE "73c5da0a"

(***************************************************************************)
(* Strings, as sequences of tokens.                                        *)
(***************************************************************************)
RECURSIVE Concat(_)
Concat(seqs) == IF seqs = <<>> THEN <<>> ELSE Head(seqs) \o Concat(Tail(seqs))

\* a child number: "/44'" or "/0"
ChildString(c) == <<"/", ToString(c.i)>> \o (IF c.h THEN <<"'">> ELSE <<>>)

PathString(path) == Concat([k \in 1..Len(path) |-> ChildString(path[k])])

FingerprintString(fp) ==
    IF fp.at = <<>> THEN <<MasterFingerprintString(fp.master)>>
    ELSE <<"hash160(", fp.master>> \o PathString(fp.at) \o <<")">>

\* the base58 text of an extended key: one blob that names the key
XkeyString(xkey) ==
    << (IF xkey.network = "Main" THEN "x" ELSE "t"),
       (IF xkey.secret THEN "prv{" ELSE "pub{"), xkey.master >>
    \o PathString(xkey.at) \o <<"}">>

\* maybe_fmt_master_id: "[fingerprint/path]" when the key has an origin
OriginString(origin) ==
    IF origin = <<>> THEN <<>>
    ELSE <<"[">> \o FingerprintString(origin[1].fp) \o PathString(origin[1].path) \o <<"]">>

WildcardString(w) == IF w = "Unhardened" THEN <<"/", "*">> ELSE <<>>

\* the multipath marker of the step where the paths differ: "/<0;1>"
MarkerString(paths, k) ==
    <<"/", "<">>
    \o Concat([j \in 1..Len(paths) |->
                 (IF j = 1 THEN <<>> ELSE <<";">>)
                 \o <<ToString(paths[j][k].i)>>
                 \o (IF paths[j][k].h THEN <<"'">> ELSE <<>>)])
    \o <<">">>

\* fmt_derivation_paths: the steps all paths share are written once, the
\* step where they differ as a marker
DerivationPathsString(paths) ==
    IF Len(paths) = 1 THEN PathString(paths[1])
    ELSE Concat([k \in 1..Len(paths[1]) |->
                   IF \A j \in 1..Len(paths) : paths[j][k] = paths[1][k]
                   THEN ChildString(paths[1][k])
                   ELSE MarkerString(paths, k)])

\* Display of DescriptorPublicKey and of DescriptorSecretKey
KeyString(key) ==
    IF key.variant = "Single"
    THEN OriginString(key.origin)
         \o <<(IF key.xkey.secret THEN "wif{" ELSE "hex{"), key.xkey.master, "}">>
    ELSE OriginString(key.origin) \o XkeyString(key.xkey)
         \o DerivationPathsString(key.derivation_paths)
         \o WildcardString(key.wildcard)

(***************************************************************************)
(* Descriptor keys (miniscript's DescriptorPublicKey, DescriptorSecretKey). *)
(* One record serves every variant: Single, XPub / XPrv (one derivation    *)
(* path) and MultiXPub / MultiXPrv (several).                              *)
(***************************************************************************)
XKey(variant, origin, xkey, paths, wildcard) ==
    [variant |-> variant, origin |-> origin, xkey |-> xkey,
     derivation_paths |-> paths, wildcard |-> wildcard]

SubPath(path, from, to) == [k \in 1..(to - from + 1) |-> path[from + k - 1]]

\* the number of leading steps of `path` up to its last hardened one
LastHardened(path) ==
    IF \E k \in 1..Len(path) : path[k].h
    THEN CHOOSE k \in 1..Len(path) : path[k].h /\ \A j \in (k + 1)..Len(path) : ~path[j].h
    ELSE 0

\* DescriptorSecretKey::to_public.  Of an XPrv the hardened steps are derived
\* on the private key and move into the origin, the normal ones stay as the
\* path.  Of a MultiXPrv it is an error ("Can't make an extended private key
\* with multiple paths into a public key.").
to_public(sk) ==
    CASE sk.variant = "Single" -> [ok |-> TRUE, pk |-> [sk EXCEPT !.xkey.secret = FALSE]]
      [] sk.variant = "MultiXPrv" -> [ok |-> FALSE, pk |-> sk]
      [] sk.variant = "XPrv" ->
            LET path     == sk.derivation_paths[1]
                h        == LastHardened(path)
                hardened == SubPath(path, 1, h)
                xprv     == derive_priv(sk.xkey, hardened)
                origin   == IF sk.origin # <<>>
                            THEN <<[fp |-> sk.origin[1].fp,
                                    path |-> sk.origin[1].path \o hardened]>>
                            ELSE IF hardened = <<>> THEN <<>>
                            ELSE <<[fp |-> fingerprint(sk.xkey), path |-> hardened]>>
            IN  [ok |-> TRUE,
                 pk |-> XKey("XPub", origin, from_priv(xprv),
                             <<SubPath(path, h + 1, Len(path))>>, sk.wildcard)]

\* DescriptorPublicKey::is_multipath
key_is_multipath(pk) == pk.variant = "MultiXPub"

\* DescriptorPublicKey::into_single_keys: one XPub per path, in the paths' order
into_single_keys(pk) ==
    IF pk.variant = "MultiXPub"
    THEN [j \in 1..Len(pk.derivation_paths) |->
            XKey("XPub", pk.origin, pk.xkey, <<pk.derivation_paths[j]>>, pk.wildcard)]
    ELSE <<pk>>

\* the networks a key is valid on (bdk_wallet's into_descriptor_key): a
\* single key on any, an extended key on those of its version bytes
valid_networks(pk) ==
    IF pk.variant = "Single" THEN Networks
    ELSE {n \in Networks : NetworkKind(n) = pk.xkey.network}

(***************************************************************************)
(* The descriptor expression (ExtendedDescriptor) and the key map.         *)
(***************************************************************************)
\* pkh(K), sh(wpkh(K)), wpkh(K), tr(K), wsh(multi(2,K,L)), and wsh(M) for a
\* miniscript M over one key K whose structure the model leaves open
Shapes == {"pkh", "sh_wpkh", "wpkh", "tr", "wsh_multi", "wsh_ms"}

ExtendedDescriptor(shape, keys) == [shape |-> shape, keys |-> keys]

ShapeOpen(shape) ==
    CASE shape = "pkh" -> <<"pkh(">>
      [] shape = "sh_wpkh" -> <<"sh(", "wpkh(">>
      [] shape = "wpkh" -> <<"wpkh(">>
      [] shape = "tr" -> <<"tr(">>
      [] shape = "wsh_multi" -> <<"wsh(", "multi(", "2", ",">>
      [] shape = "wsh_ms" -> <<"wsh(", "ms(">>

ShapeClose(shape) ==
    IF shape \in {"sh_wpkh", "wsh_multi", "wsh_ms"} THEN <<")", ")">> ELSE <<")">>

\* the descriptor checksum: a function of the text before it
desc_checksum(body) == <<"#", "checksum{">> \o body \o <<"}">>

\* Display of a descriptor whose keys are already strings
DescriptorString(shape, keystrings) ==
    LET body == ShapeOpen(shape)
                \o Concat([k \in 1..Len(keystrings) |->
                             (IF k = 1 THEN <<>> ELSE <<",">>) \o keystrings[k]])
                \o ShapeClose(shape)
    IN  body \o desc_checksum(body)

\* KeyMap::get
KeyMapGet(key_map, pk) == {e \in key_map : e.pk = pk}

\* Display for miniscript's Descriptor<DescriptorPublicKey>
ExtendedDescriptorString(ext) ==
    DescriptorString(ext.shape, [k \in 1..Len(ext.keys) |-> KeyString(ext.keys[k])])

\* miniscript's Descriptor::to_string_with_secret: each key is written as its
\* secret when the key map holds it, and as itself when it does not
ExtendedDescriptorStringWithSecret(ext, key_map) ==
    DescriptorString(ext.shape,
        [k \in 1..Len(ext.keys) |->
            LET found == KeyMapGet(key_map, ext.keys[k])
            IN  IF found = {} THEN KeyString(ext.keys[k])
                ELSE KeyString((CHOOSE e \in found : TRUE).sk)])

\* bdk_chain's DescriptorExt::descriptor_id: the SHA-256 of the descriptor's string
ext_descriptor_id(ext) == <<"sha256{">> \o ExtendedDescriptorString(ext) \o <<"}">>

\* miniscript's Descriptor::is_multipath (for_any_key)
ext_is_multipath(ext) == \E k \in 1..Len(ext.keys) : key_is_multipath(ext.keys[k])

\* miniscript's Descriptor::into_single_descriptors: as many descriptors as
\* the first multipath key has paths, the i-th with every multipath key
\* replaced by its i-th single key; the descriptor itself when no key is
\* multipath; MultipathDescLenMismatch when a key has no i-th path
into_single_descriptors(ext) ==
    IF ~ext_is_multipath(ext) THEN [ok |-> TRUE, descs |-> <<ext>>]
    ELSE
    LET first == CHOOSE k \in 1..Len(ext.keys) :
                    /\ key_is_multipath(ext.keys[k])
                    /\ \A j \in 1..(k - 1) : ~key_is_multipath(ext.keys[j])
        n     == Len(ext.keys[first].derivation_paths)
    IN  IF \E k \in 1..Len(ext.keys) : /\ key_is_multipath(ext.keys[k])
                                         /\ Len(into_single_keys(ext.keys[k])) < n
        THEN [ok |-> FALSE, descs |-> <<>>]
        ELSE [ok |-> TRUE,
              descs |-> [i \in 1..n |->
                  ExtendedDescriptor(ext.shape,
                      [k \in 1..Len(ext.keys) |->
                          IF key_is_multipath(ext.keys[k])
                          THEN into_single_keys(ext.keys[k])[i]
                          ELSE ext.keys[k]])]]

\* miniscript's Descriptor::max_weight_to_satisfy, in weight units: the
\* outcomes the analysis can have.  The standard single-key shapes have one
\* weight each (a 73-byte signature, a 34-byte key push, the 23-byte redeem
\* script push of sh(wpkh), a 66-byte taproot key spend); the analysis of an
\* open miniscript either bounds it or fails with ImpossibleSatisfaction.
ext_max_weight_to_satisfy(ext) ==
    CASE ext.shape = "pkh" -> {[ok |-> TRUE, wu |-> 4 * (1 + 73 + 34)]}
      [] ext.shape = "wpkh" -> {[ok |-> TRUE, wu |-> 73 + 34]}
      [] ext.shape = "sh_wpkh" -> {[ok |-> TRUE, wu |-> 4 * 23 + 73 + 34]}
      [] ext.shape = "tr" -> {[ok |-> TRUE, wu |-> 1 + 65]}
      [] ext.shape = "wsh_multi" -> {[ok |-> TRUE, wu |-> 4 + 2 * 73 + 72]}
      [] ext.shape = "wsh_ms" -> {[ok |-> TRUE, wu |-> 2 + 73 + 36],
                                  [ok |-> FALSE, wu |-> 0]}

(***************************************************************************)
(* What a call hands back: a value, a typed error, or a panic.             *)
(***************************************************************************)
Ok(d) == [outcome |-> "ok", kind |-> "", descriptor |-> <<d>>]

Err(kind) == [outcome |-> "err", kind |-> kind, descriptor |-> <<>>]

Panic(what) == [outcome |-> "panic", kind |-> what, descriptor |-> <<>>]

\* the Descriptor struct
Descriptor(extended_descriptor, key_map) ==
    [extended_descriptor |-> extended_descriptor, key_map |-> key_map]

(***************************************************************************)
(* bdk_wallet's descriptor templates, as the constructors call them.       *)
(***************************************************************************)
CoinType(network) == IF network = "Bitcoin" THEN 0 ELSE 1

KeychainIndex(keychain_kind) == IF keychain_kind = "External" THEN 0 ELSE 1

\* make_bipxx_private: the key with the whole path bip'/coin'/0'/role, no origin
make_bipxx_private(bip, key, keychain_kind, network) ==
    XKey("XPrv", <<>>, key,
         << <<Hardened(bip), Hardened(CoinType(network)), Hardened(0),
              Normal(KeychainIndex(keychain_kind))>> >>,
         "Unhardened")

\* make_bipxx_public: the key with the origin fingerprint/bip'/coin'/0' and
\* the path role
make_bipxx_public(bip, key, parent_fingerprint, keychain_kind, network) ==
    XKey("XPub",
         <<[fp |-> parent_fingerprint,
            path |-> <<Hardened(bip), Hardened(CoinType(network)), Hardened(0)>>]>>,
         key, << <<Normal(KeychainIndex(keychain_kind))>> >>, "Unhardened")

\* the keys of an expression: a secret key goes in as its public key, and
\* into the key map under it (the descriptor! macro of the templates, the
\* key parser of parse_descriptor)
build(shape, keys) ==
    LET pub(k) == IF keys[k].xkey.secret THEN to_public(keys[k])
                  ELSE [ok |-> TRUE, pk |-> keys[k]]
    IN  IF \E k \in 1..Len(keys) : ~pub(k).ok
        THEN [ok |-> FALSE, extended_descriptor |-> ExtendedDescriptor(shape, <<>>),
              key_map |-> {}]
        ELSE [ok |-> TRUE,
              extended_descriptor |-> ExtendedDescriptor(shape, [k \in 1..Len(keys) |-> pub(k).pk]),
              key_map |-> {[pk |-> pub(k).pk, sk |-> keys[k]] :
                              k \in {j \in 1..Len(keys) : keys[j].xkey.secret}}]

Bip44(key, keychain_kind, network) ==
    build("pkh", <<make_bipxx_private(44, key, keychain_kind, network)>>)

Bip44Public(key, fp, keychain_kind, network) ==
    build("pkh", <<make_bipxx_public(44, key, fp, keychain_kind, network)>>)

Bip49(key, keychain_kind, network) ==
    build("sh_wpkh", <<make_bipxx_private(49, key, keychain_kind, network)>>)

Bip49Public(key, fp, keychain_kind, network) ==
    build("sh_wpkh", <<make_bipxx_public(49, key, fp, keychain_kind, network)>>)

Bip84(key, keychain_kind, network) ==
    build("wpkh", <<make_bipxx_private(84, key, keychain_kind, network)>>)

Bip84Public(key, fp, keychain_kind, network) ==
    build("wpkh", <<make_bipxx_public(84, key, fp, keychain_kind, network)>>)

Bip86(key, keychain_kind, network) ==
    build("tr", <<make_bipxx_private(86, key, keychain_kind, network)>>)

Bip86Public(key, fp, keychain_kind, network) ==
    build("tr", <<make_bipxx_public(86, key, fp, keychain_kind, network)>>)

\* Result::unwrap of a template's build, then the struct literal
UnwrapBuild(b) ==
    IF b.ok THEN Ok(Descriptor(b.extended_descriptor, b.key_map))
    ELSE Panic("unwrap")

(***************************************************************************)
(* The eight template constructors.                                        *)
(***************************************************************************)
new_bip44(secret_key, keychain_kind, network) ==
    CASE secret_key.variant = "Single" -> Panic("unreachable")
      [] secret_key.variant = "XPrv" -> UnwrapBuild(Bip44(secret_key.xkey, keychain_kind, network))
      [] secret_key.variant = "MultiXPrv" -> Panic("unreachable")

\* new_bip44_public with the template of new_bip49_public pasted in
new_bip44_public_as_bip49(public_key, fingerprint_string, keychain_kind, network) ==
    LET fp == Fingerprint_from_str(fingerprint_string)
    IN  CASE ~fp.ok -> Panic("unwrap")
          [] fp.ok /\ public_key.variant = "Single" -> Panic("unreachable")
          [] fp.ok /\ public_key.variant = "XPub" ->
                UnwrapBuild(Bip49Public(public_key.xkey, fp.fp, keychain_kind, network))
          [] fp.ok /\ public_key.variant = "MultiXPub" -> Panic("unreachable")

new_bip44_public(public_key, fingerprint_string, keychain_kind, network) ==
    LET fp == Fingerprint_from_str(fingerprint_string)
    IN  CASE ~fp.ok -> Panic("unwrap")
          [] fp.ok /\ public_key.variant = "Single" -> Panic("unreachable")
          [] fp.ok /\ public_key.variant = "XPub" ->
                UnwrapBuild(Bip44Public(public_key.xkey, fp.fp, keychain_kind, network))
          [] fp.ok /\ public_key.variant = "MultiXPub" -> Panic("unreachable")

new_bip49(secret_key, keychain_kind, network) ==
    CASE secret_key.variant = "Single" -> Panic("unreachable")
      [] secret_key.variant = "XPrv" -> UnwrapBuild(Bip49(secret_key.xkey, keychain_kind, network))
      [] secret_key.variant = "MultiXPrv" -> Panic("unreachable")

new_bip49_public(public_key, fingerprint_string, keychain_kind, network) ==
    LET fp == Fingerprint_from_str(fingerprint_string)
    IN  CASE ~fp.ok -> Panic("unwrap")
          [] fp.ok /\ public_key.variant = "Single" -> Panic("unreachable")
          [] fp.ok /\ public_key.variant = "XPub" ->
                UnwrapBuild(Bip49Public(public_key.xkey, fp.fp, keychain_kind, network))
          [] fp.ok /\ public_key.variant = "MultiXPub" -> Panic("unreachable")

new_bip84(secret_key, keychain_kind, network) ==
    CASE secret_key.variant = "Single" -> Panic("unreachable")
      [] secret_key.variant = "XPrv" -> UnwrapBuild(Bip84(secret_key.xkey, keychain_kind, network))
      [] secret_key.variant = "MultiXPrv" -> Panic("unreachable")

new_bip84_public(public_key, fingerprint_string, keychain_kind, network) ==
    LET fp == Fingerprint_from_str(fingerprint_string)
    IN  CASE ~fp.ok -> Panic("unwrap")
          [] fp.ok /\ public_key.variant = "Single" -> Panic("unreachable")
          [] fp.ok /\ public_key.variant = "XPub" ->
                UnwrapBuild(Bip84Public(public_key.xkey, fp.fp, keychain_kind, network))
          [] fp.ok /\ public_key.variant = "MultiXPub" -> Panic("unreachable")

\* new_bip86 with the key map of the BIP84 template pasted in
new_bip86_key_map_of_bip84(secret_key, keychain_kind, network) ==
    CASE secret_key.variant = "Single" -> Panic("unreachable")
      [] secret_key.variant = "XPrv" ->
            UnwrapBuild([Bip86(secret_key.xkey, keychain_kind, network) EXCEPT
                            !.key_map = Bip84(secret_key.xkey, keychain_kind, network).key_map])
      [] secret_key.variant = "MultiXPrv" -> Panic("unreachable")

new_bip86(secret_key, keychain_kind, network) ==
    CASE secret_key.variant = "Single" -> Panic("unreachable")
      [] secret_key.variant = "XPrv" -> UnwrapBuild(Bip86(secret_key.xkey, keychain_kind, network))
      [] secret_key.variant = "MultiXPrv" -> Panic("unreachable")

new_bip86_public(public_key, fingerprint_string, keychain_kind, network) ==
    LET fp == Fingerprint_from_str(fingerprint_string)
    IN  CASE ~fp.ok -> Panic("unwrap")
          [] fp.ok /\ public_key.variant = "Single" -> Panic("unreachable")
          [] fp.ok /\ public_key.variant = "XPub" ->
                UnwrapBuild(Bip86Public(public_key.xkey, fp.fp, keychain_kind, network))
          [] fp.ok /\ public_key.variant = "MultiXPub" -> Panic("unreachable")

(***************************************************************************)
(* Descriptor texts.  A text is its shape and the text of its key; a key   *)
(* text is an extended key (xprv/xpub, tprv/tpub by its network kind) with *)
(* an optional origin, derivation steps, an optional multipath marker and  *)
(* a wildcard, or a single key (WIF or hex).                               *)
(***************************************************************************)
\* the markers of the texts: <0;1>, <0;1;2>, ... and <1;0>, <2;1;0>, ...
Markers ==
    {[j \in 1..n |-> j - 1] : n \in 2..MaxPaths} \cup {[j \in 1..n |-> n - j] : n \in 2..MaxPaths}

KeyText(enc, origin, xkey, steps, marker) ==
    [enc |-> enc, origin |-> origin, xkey |-> xkey, steps |-> steps, marker |-> marker,
     wildcard |-> IF enc \in {"wif", "hex"} THEN "None" ELSE "Unhardened"]

\* the account steps of the private texts, as in the repository's tests
TextAccount == <<Hardened(84), Hardened(1), Hardened(1)>>

\* the steps and marker a text ends in: /0/* or /<..>/*
TextTails == {[steps |-> <<Normal(0)>>, marker |-> <<>>]}
             \cup {[steps |-> <<>>, marker |-> m] : m \in Markers}

PrivateKeyTexts ==
    {KeyText("xprv", <<>>, MasterXprv(m), account \o tail.steps, tail.marker) :
        m \in Masters, account \in {<<>>, TextAccount}, tail \in TextTails}

\* the watch-only texts: the same keys written as public keys
PublicKeyTexts ==
    {KeyText("xpub",
             (IF account = <<>> THEN <<>>
              ELSE <<[fp |-> fingerprint(MasterXprv(m)), path |-> account]>>),
             from_priv(derive_priv(MasterXprv(m), account)), tail.steps, tail.marker) :
        m \in Masters, account \in {<<>>, TextAccount}, tail \in TextTails}

SingleKeyTexts ==
    {KeyText(enc, <<>>,
             [secret |-> enc = "wif", master |-> "P1", at |-> <<>>, network |-> "Any"],
             <<>>, <<>>) : enc \in {"wif", "hex"}}

KeyTexts == PrivateKeyTexts \cup PublicKeyTexts \cup SingleKeyTexts

\* the texts a caller passes to new: every one-key shape over every key
\* text, the two-key shape over two keys of one master (an account-less key
\* and an account key), and one text that is no descriptor at all
DescriptorTexts ==
    {[shape |-> shape, keys |-> <<kt>>] : shape \in Shapes \ {"wsh_multi"}, kt \in KeyTexts}
    \cup {[shape |-> "wsh_multi", keys |-> <<k1, k2>>] :
             k1 \in {t \in PrivateKeyTexts \cup PublicKeyTexts :
                        t.origin = <<>> /\ t.xkey.at = <<>> /\ Len(t.steps) <= 1},
             k2 \in {t \in PublicKeyTexts : t.origin # <<>>}}
    \cup {[shape |-> "malformed", keys |-> <<kt>>] : kt \in SingleKeyTexts}

\* DescriptorSecretKey::from_str / DescriptorPublicKey::from_str: a marker
\* becomes one derivation path per index, in the marker's order
parse_key(kt) ==
    IF kt.enc \in {"wif", "hex"} THEN XKey("Single", kt.origin, kt.xkey, <<>>, kt.wildcard)
    ELSE IF kt.marker = <<>>
    THEN XKey((IF kt.xkey.secret THEN "XPrv" ELSE "XPub"), kt.origin, kt.xkey,
              <<kt.steps>>, kt.wildcard)
    ELSE XKey((IF kt.xkey.secret THEN "MultiXPrv" ELSE "MultiXPub"), kt.origin, kt.xkey,
              [j \in 1..Len(kt.marker) |-> kt.steps \o <<Normal(kt.marker[j])>>],
              kt.wildcard)

\* miniscript's Descriptor::parse_descriptor: the expression over public
\* keys, and the key map of the secret keys the text holds
parse_descriptor(text) ==
    IF text.shape \notin Shapes
    THEN [ok |-> FALSE, extended_descriptor |-> ExtendedDescriptor("", <<>>), key_map |-> {}]
    ELSE build(text.shape, [k \in 1..Len(text.keys) |-> parse_key(text.keys[k])])

\* bdk_wallet's into_wallet_descriptor for a string: parse, then check every
\* key of the expression against the requested network
into_wallet_descriptor(text, network) ==
    LET parsed == parse_descriptor(text)
        ext    == parsed.extended_descriptor
    IN  IF ~parsed.ok THEN [ok |-> FALSE, error |-> "Miniscript", parsed |-> parsed]
        ELSE IF \E k \in 1..Len(ext.keys) : network \notin valid_networks(ext.keys[k])
        THEN [ok |-> FALSE, error |-> "Key", parsed |-> parsed]
        ELSE [ok |-> TRUE, error |-> "", parsed |-> parsed]

(***************************************************************************)
(* Descriptor::new and the six read operations.                            *)
(***************************************************************************)
\* new with the text parsed but its keys not checked against the network
new_without_network_check(descriptor, network) ==
    LET parsed == parse_descriptor(descriptor)
    IN  IF parsed.ok THEN Ok(Descriptor(parsed.extended_descriptor, parsed.key_map))
        ELSE Err("Miniscript")

new(descriptor, network) ==
    LET r == into_wallet_descriptor(descriptor, network)
    IN  IF r.ok THEN Ok(Descriptor(r.parsed.extended_descriptor, r.parsed.key_map))
        ELSE Err(r.error)

\* Display for Descriptor
to_string(d) == ExtendedDescriptorString(d.extended_descriptor)

\* to_string_with_secret cut before the checksum
to_string_with_secret_without_checksum(d) ==
    LET str == ExtendedDescriptorStringWithSecret(d.extended_descriptor, d.key_map)
    IN  SubSeq(str, 1, (Len(str) - 3) \div 2)

to_string_with_secret(d) == ExtendedDescriptorStringWithSecret(d.extended_descriptor, d.key_map)

\* is_multipath looking at the first key of the expression only
is_multipath_of_first_key(d) == key_is_multipath(d.extended_descriptor.keys[1])

is_multipath(d) == ext_is_multipath(d.extended_descriptor)

\* descriptor_id as the hash of the string that shows the secrets
descriptor_id_of_secret_string(d) == <<"sha256{">> \o to_string_with_secret(d) \o <<"}">>

descriptor_id(d) == ext_descriptor_id(d.extended_descriptor)

\* to_single_descriptors with the descriptors in the opposite order
to_single_descriptors_reversed(d) ==
    LET r == into_single_descriptors(d.extended_descriptor)
    IN  [receiver |-> d,
         outcome |-> IF r.ok THEN "ok" ELSE "err",
         kind |-> IF r.ok THEN "" ELSE "MiniscriptError",
         descs |-> [i \in 1..Len(r.descs) |->
                      Descriptor(r.descs[Len(r.descs) + 1 - i], d.key_map)]]

\* to_single_descriptors splitting the receiver's own expression in place:
\* the receiver is left as the first of the single-path descriptors
to_single_descriptors_in_place(d) ==
    LET r == into_single_descriptors(d.extended_descriptor)
    IN  [receiver |-> IF r.ok THEN Descriptor(r.descs[1], d.key_map) ELSE d,
         outcome |-> IF r.ok THEN "ok" ELSE "err",
         kind |-> IF r.ok THEN "" ELSE "MiniscriptError",
         descs |-> [i \in 1..Len(r.descs) |-> Descriptor(r.descs[i], d.key_map)]]

\* to_single_descriptors taking the single-path descriptors out of the
\* receiver's expression: the receiver is left with the last of them
to_single_descriptors_draining(d) ==
    LET r == into_single_descriptors(d.extended_descriptor)
    IN  [receiver |-> IF r.ok THEN Descriptor(r.descs[Len(r.descs)], d.key_map) ELSE d,
         outcome |-> IF r.ok THEN "ok" ELSE "err",
         kind |-> IF r.ok THEN "" ELSE "MiniscriptError",
         descs |-> [i \in 1..Len(r.descs) |-> Descriptor(r.descs[i], d.key_map)]]

\* to_single_descriptors works on a clone of the expression: `receiver` is
\* the descriptor it was called on, as the call leaves it
to_single_descriptors(d) ==
    LET r == into_single_descriptors(d.extended_descriptor)
    IN  [receiver |-> d,
         outcome |-> IF r.ok THEN "ok" ELSE "err",
         kind |-> IF r.ok THEN "" ELSE "MiniscriptError",
         descs |-> [i \in 1..Len(r.descs) |-> Descriptor(r.descs[i], d.key_map)]]

\* max_weight_to_satisfy handing the weight back in thousands of weight
\* units, rounded down
max_weight_to_satisfy_in_kwu(d) ==
    {IF r.ok THEN [outcome |-> "ok", kind |-> "", wu |-> r.wu \div 1000]
     ELSE [outcome |-> "err", kind |-> "Miniscript", wu |-> 0] :
        r \in ext_max_weight_to_satisfy(d.extended_descriptor)}

\* max_weight_to_satisfy: the outcomes, one per outcome of the analysis
max_weight_to_satisfy(d) ==
    {IF r.ok THEN [outcome |-> "ok", kind |-> "", wu |-> r.wu]
     ELSE [outcome |-> "err", kind |-> "Miniscript", wu |-> 0] :
        r \in ext_max_weight_to_satisfy(d.extended_descriptor)}

(***************************************************************************)
(* The caller: the keys it passes, the calls it makes.                     *)
(***************************************************************************)
Bips == {44, 49, 84, 86}

\* DescriptorSecretKey values: a master key, a single key, a multipath key
SecretKeyInputs ==
    {XKey("XPrv", <<>>, MasterXprv(m), << <<>> >>, "Unhardened") : m \in Masters}
    \cup {parse_key(kt) : kt \in {t \in SingleKeyTexts : t.enc = "wif"}}
    \cup {parse_key(kt) : kt \in {t \in PrivateKeyTexts :
                                      t.marker = <<0, 1>> /\ t.steps = <<>> /\ t.xkey.master = "K1"}}

\* the account path bip'/coin'/0' of a template
AccountPath(bip, coin) == <<Hardened(bip), Hardened(coin), Hardened(0)>>

\* master.derive(m/bip'/coin'/0').as_public(): the account's public key
AccountPublicKey(xprv, bip, coin) ==
    to_public(XKey("XPrv", <<[fp |-> fingerprint(xprv), path |-> <<>>]>>,
                   xprv, <<AccountPath(bip, coin)>>, "Unhardened")).pk

\* DescriptorPublicKey values: account keys, a single key, a multipath key
PublicKeyInputs ==
    {AccountPublicKey(MasterXprv(m), bip, coin) : m \in Masters, bip \in Bips, coin \in {0, 1}}
    \cup {parse_key(kt) : kt \in {t \in SingleKeyTexts : t.enc = "hex"}}
    \cup {parse_key(kt) : kt \in {t \in PublicKeyTexts :
                                      t.marker = <<0, 1>> /\ t.origin = <<>> /\ t.xkey.master = "K1"}}

\* `made` is the call a constructor's return answers
NoRet ==
    [op |-> "", outcome |-> "", kind |-> "", string |-> <<>>, flag |-> FALSE,
     descs |-> <<>>, wu |-> 0, made |-> [ctor |-> ""]]

Constructors ==
    {"new", "new_bip44", "new_bip44_public", "new_bip49", "new_bip49_public",
     "new_bip84", "new_bip84_public", "new_bip86", "new_bip86_public"}

Operations ==
    {"to_string", "to_string_with_secret", "is_multipath", "descriptor_id",
     "to_single_descriptors", "max_weight_to_satisfy"}

(***************************************************************************)
(* The LightClient: tokio's Mutex and the calls through it.                *)
(***************************************************************************)
Calls == 1..MaxCalls

ClientOperations == {"update", "broadcast", "watch_address", "shutdown"}

\* a call that has not started, or has returned to its caller
Idle == [op |-> "", at |-> "idle", result |-> ""]

\* a lock that hands out its guard whether or not another call holds it
lock_without_waiting(mutex, c) == [mutex EXCEPT !.holders = @ \cup {c}]

\* tokio's Mutex::lock, polled: the guard when the mutex is free and nobody
\* waits, a place at the end of the queue otherwise
lock(mutex, c) ==
    IF mutex.holders = {} /\ mutex.waiters = <<>>
    THEN [mutex EXCEPT !.holders = {c}]
    ELSE [mutex EXCEPT !.waiters = Append(@, c)]

\* the MutexGuard dropped: the mutex goes to the call that waited longest,
\* or is free
unlock(mutex, c) ==
    IF mutex.waiters = <<>>
    THEN [mutex EXCEPT !.holders = @ \ {c}]
    ELSE [holders |-> (mutex.holders \ {c}) \cup {Head(mutex.waiters)},
          waiters |-> Tail(mutex.waiters)]

\* where each call is once the mutex has become `mutex`: a waiting call that
\* got the guard goes on
Woken(cs, mutex) ==
    [c \in Calls |->
        IF cs[c].at = "locking" /\ c \in mutex.holders
        THEN [cs[c] EXCEPT !.at = "locked"]
        ELSE cs[c]]

\* what the underlying client answers: update an update or nothing, the
\* others Ok; nothing and an error once the node has been shut down
Results(op, running) ==
    IF op = "update" THEN (IF running THEN {"Some", "None"} ELSE {"None"})
    ELSE IF running THEN {"Ok"} ELSE {"Err"}

\* what the caller sees of an expansion: how it ended, and the string of
\* each descriptor it returned
Seen(outcome, descs) ==
    [outcome |-> outcome, strings |-> [i \in 1..Len(descs) |-> to_string(descs[i])]]

\* build_light_client: the client in a new Mutex, no call made yet, the
\* node running
InitLightClient ==
    /\ client = [holders |-> {}, waiters |-> <<>>]
    /\ calls = [c \in Calls |-> Idle]
    /\ node = [running |-> TRUE, serving |-> {}]

Init ==
    /\ self = <<>>
    /\ ret = NoRet
    /\ pc = "ready"
    /\ expanded = <<>>
    /\ InitLightClient

\* a constructor returns: the caller holds the new descriptor, has the typed
\* error in hand, or has unwound with the panic
Constructed(made, r) ==
    /\ ret' = [NoRet EXCEPT !.op = made.ctor, !.outcome = r.outcome, !.kind = r.kind,
                             !.made = made]
    /\ pc' = IF r.outcome = "panic" THEN "panicked" ELSE pc
    /\ self' = IF r.outcome = "ok"
               THEN <<[descriptor |-> r.descriptor[1], made |-> made]>>
               ELSE self
    /\ expanded' = <<>>
    /\ UNCHANGED <<client, calls, node>>

Call_new ==
    /\ pc = "ready" /\ self = <<>> /\ ret = NoRet
    /\ \E descriptor \in DescriptorTexts, network \in Networks :
          Constructed([ctor |-> "new", descriptor |-> descriptor, network |-> network],
                      new(descriptor, network))

PrivateMade(ctor, sk, kc, n) ==
    [ctor |-> ctor, secret_key |-> sk, keychain_kind |-> kc, network |-> n]

PublicMade(ctor, pk, fp, kc, n) ==
    [ctor |-> ctor, public_key |-> pk, fingerprint |-> fp, keychain_kind |-> kc, network |-> n]

Call_new_bip44 ==
    /\ pc = "ready" /\ self = <<>> /\ ret = NoRet
    /\ \E sk \in SecretKeyInputs, kc \in KeychainKinds, n \in Networks :
          Constructed(PrivateMade("new_bip44", sk, kc, n), new_bip44(sk, kc, n))

Call_new_bip44_public ==
    /\ pc = "ready" /\ self = <<>> /\ ret = NoRet
    /\ \E pk \in PublicKeyInputs, fp \in FingerprintStrings, kc \in KeychainKinds, n \in Networks :
          Constructed(PublicMade("new_bip44_public", pk, fp, kc, n),
                      new_bip44_public(pk, fp, kc, n))

Call_new_bip49 ==
    /\ pc = "ready" /\ self = <<>> /\ ret = NoRet
    /\ \E sk \in SecretKeyInputs, kc \in KeychainKinds, n \in Networks :
          Constructed(PrivateMade("new_bip49", sk, kc, n), new_bip49(sk, kc, n))

Call_new_bip49_public ==
    /\ pc = "ready" /\ self = <<>> /\ ret = NoRet
    /\ \E pk \in PublicKeyInputs, fp \in FingerprintStrings, kc \in KeychainKinds, n \in Networks :
          Constructed(PublicMade("new_bip49_public", pk, fp, kc, n),
                      new_bip49_public(pk, fp, kc, n))

Call_new_bip84 ==
    /\ pc = "ready" /\ self = <<>> /\ ret = NoRet
    /\ \E sk \in SecretKeyInputs, kc \in KeychainKinds, n \in Networks :
          Constructed(PrivateMade("new_bip84", sk, kc, n), new_bip84(sk, kc, n))

Call_new_bip84_public ==
    /\ pc = "ready" /\ self = <<>> /\ ret = NoRet
    /\ \E pk \in PublicKeyInputs, fp \in FingerprintStrings, kc \in KeychainKinds, n \in Networks :
          Constructed(PublicMade("new_bip84_public", pk, fp, kc, n),
                      new_bip84_public(pk, fp, kc, n))

Call_new_bip86 ==
    /\ pc = "ready" /\ self = <<>> /\ ret = NoRet
    /\ \E sk \in SecretKeyInputs, kc \in KeychainKinds, n \in Networks :
          Constructed(PrivateMade("new_bip86", sk, kc, n), new_bip86(sk, kc, n))

Call_new_bip86_public ==
    /\ pc = "ready" /\ self = <<>> /\ ret = NoRet
    /\ \E pk \in PublicKeyInputs, fp \in FingerprintStrings, kc \in KeychainKinds, n \in Networks :
          Constructed(PublicMade("new_bip86_public", pk, fp, kc, n),
                      new_bip86_public(pk, fp, kc, n))

Call_to_string ==
    /\ pc = "ready" /\ self # <<>>
    /\ ret' = [NoRet EXCEPT !.op = "to_string", !.outcome = "ok",
                             !.string = to_string(self[1].descriptor)]
    /\ UNCHANGED <<self, pc, expanded, client, calls, node>>

Call_to_string_with_secret ==
    /\ pc = "ready" /\ self # <<>>
    /\ ret' = [NoRet EXCEPT !.op = "to_string_with_secret", !.outcome = "ok",
                             !.string = to_string_with_secret(self[1].descriptor)]
    /\ UNCHANGED <<self, pc, expanded, client, calls, node>>

Call_is_multipath ==
    /\ pc = "ready" /\ self # <<>>
    /\ ret' = [NoRet EXCEPT !.op = "is_multipath", !.outcome = "ok",
                             !.flag = is_multipath(self[1].descriptor)]
    /\ UNCHANGED <<self, pc, expanded, client, calls, node>>

Call_descriptor_id ==
    /\ pc = "ready" /\ self # <<>>
    /\ ret' = [NoRet EXCEPT !.op = "descriptor_id", !.outcome = "ok",
                             !.string = descriptor_id(self[1].descriptor)]
    /\ UNCHANGED <<self, pc, expanded, client, calls, node>>

Call_to_single_descriptors ==
    /\ pc = "ready" /\ self # <<>>
    /\ LET r == to_single_descriptors(self[1].descriptor)
       IN  /\ ret' = [NoRet EXCEPT !.op = "to_single_descriptors", !.outcome = r.outcome,
                                    !.kind = r.kind, !.descs = r.descs]
           /\ self' = <<[self[1] EXCEPT !.descriptor = r.receiver]>>
           /\ expanded' = IF expanded = <<>>
                           THEN <<[first |-> Seen(r.outcome, r.descs), again |-> FALSE]>>
                           ELSE <<[expanded[1] EXCEPT !.again = TRUE]>>
    /\ UNCHANGED <<pc, client, calls, node>>

Call_max_weight_to_satisfy ==
    /\ pc = "ready" /\ self # <<>>
    /\ \E r \in max_weight_to_satisfy(self[1].descriptor) :
          ret' = [NoRet EXCEPT !.op = "max_weight_to_satisfy", !.outcome = r.outcome,
                               !.kind = r.kind, !.wu = r.wu]
    /\ UNCHANGED <<self, pc, expanded, client, calls, node>>

\* the caller keeps one of the descriptors to_single_descriptors returned
\* and lets go of the one it was called on
Keep ==
    /\ pc = "ready" /\ self # <<>>
    /\ ret.op = "to_single_descriptors" /\ ret.outcome = "ok"
    /\ \E i \in 1..Len(ret.descs) :
          self' = <<[descriptor |-> ret.descs[i],
                     made |-> IF self[1].made.ctor = "to_single_descriptors"
                              THEN self[1].made
                              ELSE [ctor |-> "to_single_descriptors", index |-> i,
                                    source |-> self[1]]]>>
    /\ ret' = NoRet
    /\ expanded' = <<>>
    /\ UNCHANGED <<pc, client, calls, node>>

\* the caller lets go of the descriptor it holds and of the last return
Drop ==
    /\ pc = "ready" /\ (self # <<>> \/ ret # NoRet)
    /\ self' = <<>>
    /\ ret' = NoRet
    /\ expanded' = <<>>
    /\ UNCHANGED <<pc, client, calls, node>>

Next ==
    \/ Call_new
    \/ Call_new_bip44 \/ Call_new_bip44_public
    \/ Call_new_bip49 \/ Call_new_bip49_public
    \/ Call_new_bip84 \/ Call_new_bip84_public
    \/ Call_new_bip86 \/ Call_new_bip86_public
    \/ Call_to_string \/ Call_to_string_with_secret
    \/ Call_is_multipath \/ Call_descriptor_id
    \/ Call_to_single_descriptors \/ Call_max_weight_to_satisfy
    \/ Keep \/ Drop

Spec == Init /\ [][Next]_vars

(***************************************************************************)
(* The calls on a LightClient, step by step.                               *)
(***************************************************************************)
\* a call asks for the lock: self.client.lock().await
Begin(c, op) ==
    /\ client' = lock(client, c)
    /\ calls' = [calls EXCEPT ![c] = [op |-> op, result |-> "",
                                      at |-> IF c \in client'.holders THEN "locked"
                                             ELSE "locking"]]
    /\ UNCHANGED <<node, self, ret, pc, expanded>>

Call_update ==
    \E c \in Calls :
        /\ calls[c].at = "idle"
        /\ Begin(c, "update")

Call_broadcast ==
    \E c \in Calls :
        /\ calls[c].at = "idle"
        /\ Begin(c, "broadcast")

Call_watch_address ==
    \E c \in Calls :
        /\ calls[c].at = "idle"
        /\ Begin(c, "watch_address")

Call_shutdown ==
    \E c \in Calls :
        /\ calls[c].at = "idle"
        /\ Begin(c, "shutdown")

\* the call has the guard and, through it, sends its request to the
\* underlying client: .update(..), .broadcast(..), .add_script(..), .shutdown()
Request ==
    \E c \in Calls :
        /\ calls[c].at = "locked"
        /\ calls' = [calls EXCEPT ![c].at = "requesting"]
        /\ node' = [node EXCEPT !.serving = @ \cup {c}]
        /\ UNCHANGED <<client, self, ret, pc, expanded>>

\* the underlying client's request returns: the .await after it completes
Returned ==
    \E c \in Calls :
        /\ calls[c].at = "requesting"
        /\ \E result \in Results(calls[c].op, node.running) :
              calls' = [calls EXCEPT ![c].at = "returned", ![c].result = result]
        /\ node' = [running |-> node.running /\ calls[c].op # "shutdown",
                     serving |-> node.serving \ {c}]
        /\ UNCHANGED <<client, self, ret, pc, expanded>>

\* the call returns to its caller: the guard goes out of scope
Finish ==
    \E c \in Calls :
        /\ calls[c].at = "returned"
        /\ client' = unlock(client, c)
        /\ calls' = Woken([calls EXCEPT ![c] = Idle], client')
        /\ UNCHANGED <<node, self, ret, pc, expanded>>

NextLightClient ==
    \/ Call_update \/ Call_broadcast \/ Call_watch_address \/ Call_shutdown
    \/ Request \/ Returned \/ Finish

SpecLightClient == Init /\ [][NextLightClient]_vars

(***************************************************************************)
(* The properties.                                                         *)
(***************************************************************************)
PrivateConstructors == {"new_bip44", "new_bip49", "new_bip84", "new_bip86"}

PublicConstructors ==
    {"new_bip44_public", "new_bip49_public", "new_bip84_public", "new_bip86_public"}

TemplateConstructors == PrivateConstructors \cup PublicConstructors

BipOf(ctor) ==
    CASE ctor \in {"new_bip44", "new_bip44_public"} -> 44
      [] ctor \in {"new_bip49", "new_bip49_public"} -> 49
      [] ctor \in {"new_bip84", "new_bip84_public"} -> 84
      [] ctor \in {"new_bip86", "new_bip86_public"} -> 86

CallPrivate(bip, sk, kc, n) ==
    CASE bip = 44 -> new_bip44(sk, kc, n)
      [] bip = 49 -> new_bip49(sk, kc, n)
      [] bip = 84 -> new_bip84(sk, kc, n)
      [] bip = 86 -> new_bip86(sk, kc, n)

CallPublic(bip, pk, fp, kc, n) ==
    CASE bip = 44 -> new_bip44_public(pk, fp, kc, n)
      [] bip = 49 -> new_bip49_public(pk, fp, kc, n)
      [] bip = 84 -> new_bip84_public(pk, fp, kc, n)
      [] bip = 86 -> new_bip86_public(pk, fp, kc, n)

MasterSecretKey(m) == XKey("XPrv", <<>>, MasterXprv(m), << <<>> >>, "Unhardened")

\* the public-root call that goes with a private-root call: the same
\* template, role and network, the master's public key derived at
\* bip'/coin'/0' and the master's fingerprint
PublicCounterpart(made) ==
    CallPublic(BipOf(made.ctor),
               AccountPublicKey(made.secret_key.xkey, BipOf(made.ctor), CoinType(made.network)),
               MasterFingerprintString(made.secret_key.xkey.master),
               made.keychain_kind, made.network)

\* the masters whose private-root call goes with a public-root call
PrivateCounterparts(made) ==
    {m \in Masters :
        /\ made.public_key = AccountPublicKey(MasterXprv(m), BipOf(made.ctor),
                                              CoinType(made.network))
        /\ made.fingerprint = MasterFingerprintString(m)}

\* C1: a descriptor built by new_bipT from a master key and the descriptor
\* built by new_bipT_public from that master's public key at bip'/coin'/0'
\* and its fingerprint, for the same role and network, have the same
\* to_string; stated of the descriptor the caller holds, whichever of the two
\* it is, and of the string to_string returned for it.
C1_PrivatePublicSameString ==
    /\ (self # <<>> /\ self[1].made.ctor \in PrivateConstructors) =>
          LET pub == PublicCounterpart(self[1].made)
          IN  /\ pub.outcome = "ok"
              /\ to_string(self[1].descriptor) = to_string(pub.descriptor[1])
              /\ (ret.op = "to_string" => ret.string = to_string(pub.descriptor[1]))
    /\ (self # <<>> /\ self[1].made.ctor \in PublicConstructors) =>
          \A m \in PrivateCounterparts(self[1].made) :
             LET prv == CallPrivate(BipOf(self[1].made.ctor), MasterSecretKey(m),
                                    self[1].made.keychain_kind, self[1].made.network)
             IN  /\ prv.outcome = "ok"
                 /\ to_string(self[1].descriptor) = to_string(prv.descriptor[1])
                 /\ (ret.op = "to_string" => ret.string = to_string(prv.descriptor[1]))

\* the repository's test: the BIP84 external testnet descriptor of master K1
\* built from its public key, and its string the string of the private one
C1_Witness ==
    /\ self # <<>>
    /\ self[1].made = PublicMade("new_bip84_public",
                                  AccountPublicKey(MasterXprv("K1"), 84, 1), "d1d04177",
                                  "External", "Testnet")
    /\ ret.op = "to_string"
    /\ ret.string = to_string(new_bip84(MasterSecretKey("K1"), "External", "Testnet").descriptor[1])
    /\ self[1].descriptor.key_map = {}

RootVariant(made) ==
    IF made.ctor \in PrivateConstructors THEN made.secret_key.variant
    ELSE made.public_key.variant

\* C2: a template constructor given a Single or multipath root key returns a
\* recoverable error and does not panic.
C2_InvalidRootIsRecoverableError ==
    (ret.op \in TemplateConstructors
        /\ RootVariant(ret.made) \in {"Single", "MultiXPrv", "MultiXPub"})
    => (ret.outcome = "err" /\ pc = "ready")

\* a text that parses and holds an extended key, and the network kind its
\* extended keys are encoded for
HasExtendedKey(text) ==
    /\ parse_descriptor(text).ok
    /\ \E k \in 1..Len(text.keys) : text.keys[k].enc \in {"xprv", "xpub"}

EncodedKinds(text) ==
    {text.keys[k].xkey.network :
        k \in {j \in 1..Len(text.keys) : text.keys[j].enc \in {"xprv", "xpub"}}}

\* the network an extended key's version bytes name: xprv/xpub Bitcoin,
\* tprv/tpub Testnet
DecodedNetwork(kind) == IF kind = "Main" THEN "Bitcoin" ELSE "Testnet"

\* C3, as claimed: new on a text with an extended key encoded for network A
\* fails with a Key error for every requested network other than A, and
\* succeeds for A.
C3_AnyOtherNetworkIsKeyError ==
    (ret.op = "new" /\ HasExtendedKey(ret.made.descriptor)) =>
        \A kind \in EncodedKinds(ret.made.descriptor) :
            LET A == DecodedNetwork(kind)
            IN  /\ ret.made.network # A =>
                      (ret.outcome = "err" /\ ret.kind = "Key" /\ self = <<>>)
                /\ ret.made.network = A => ret.outcome = "ok"

\* C3, amended: for a text whose extended keys are all encoded for one network
\* kind (mainnet, or test), new fails with a Key error, and makes no
\* descriptor, exactly for the requested networks of the other kind; it
\* succeeds for every network of the keys' kind.
C3_OtherNetworkKindIsKeyError ==
    (ret.op = "new" /\ HasExtendedKey(ret.made.descriptor)) =>
        \A kind \in EncodedKinds(ret.made.descriptor) :
            EncodedKinds(ret.made.descriptor) = {kind} =>
                IF NetworkKind(ret.made.network) # kind
                THEN ret.outcome = "err" /\ ret.kind = "Key" /\ self = <<>>
                ELSE ret.outcome = "ok" /\ self # <<>> /\ self[1].made = ret.made

\* the repository's test: a wpkh(tprv.../0/*) text asked for on Bitcoin
C3_Witness ==
    /\ ret.op = "new"
    /\ ret.made.descriptor =
          [shape |-> "wpkh", keys |-> <<KeyText("xprv", <<>>, MasterXprv("K1"), <<Normal(0)>>, <<>>)>>]
    /\ ret.made.network = "Bitcoin"
    /\ ret.outcome = "err" /\ ret.kind = "Key"
    /\ self = <<>>

\* the text of the watch-only descriptor of a text: every secret key written
\* as its public key
WatchOnlyKeyText(kt) ==
    IF ~kt.xkey.secret THEN kt
    ELSE IF kt.enc = "wif" THEN [kt EXCEPT !.enc = "hex", !.xkey.secret = FALSE]
    ELSE LET h == LastHardened(kt.steps)
         IN  KeyText("xpub",
                     (IF h = 0 THEN kt.origin
                      ELSE <<[fp |-> fingerprint(kt.xkey), path |-> SubPath(kt.steps, 1, h)]>>),
                     from_priv(derive_priv(kt.xkey, SubPath(kt.steps, 1, h))),
                     SubPath(kt.steps, h + 1, Len(kt.steps)), kt.marker)

WatchOnlyText(text) ==
    [text EXCEPT !.keys = [k \in 1..Len(text.keys) |-> WatchOnlyKeyText(text.keys[k])]]

\* key maps to put beside an expression: none, and one of another descriptor
OtherKeyMaps ==
    {{}, new_bip84(MasterSecretKey("K2"), "External", "Bitcoin").descriptor[1].key_map}

\* C4: descriptor_id is the same for descriptors of one expression whatever
\* their key maps: for the held descriptor and the same expression with no or
\* another key map, for a private-root template descriptor and its
\* public-root counterpart, and for a descriptor parsed from a text and the
\* one parsed from its watch-only text.
C4_IdIgnoresKeyMap ==
    self # <<>> =>
        LET d    == self[1].descriptor
            made == self[1].made
        IN  /\ \A km \in OtherKeyMaps :
                  /\ descriptor_id(Descriptor(d.extended_descriptor, km)) = descriptor_id(d)
                  /\ ret.op = "descriptor_id" =>
                        ret.string = descriptor_id(Descriptor(d.extended_descriptor, km))
            /\ made.ctor \in PrivateConstructors =>
                  /\ PublicCounterpart(made).descriptor[1].key_map = {}
                  /\ descriptor_id(PublicCounterpart(made).descriptor[1]) = descriptor_id(d)
            /\ made.ctor = "new" =>
                  LET w == new(WatchOnlyText(made.descriptor), made.network)
                  IN  /\ w.outcome = "ok"
                      /\ w.descriptor[1].key_map = {}
                      /\ descriptor_id(w.descriptor[1]) = descriptor_id(d)

\* a descriptor parsed from a text with a private key, and its identifier
C4_Witness ==
    /\ self # <<>>
    /\ self[1].made.ctor = "new"
    /\ self[1].descriptor.key_map # {}
    /\ ret.op = "descriptor_id"
    /\ ret.string = descriptor_id(Descriptor(self[1].descriptor.extended_descriptor, {}))

\* every private entry of the key map is under a key of the expression
KeyMapInExpression(d) ==
    \A e \in d.key_map :
        \E k \in 1..Len(d.extended_descriptor.keys) : d.extended_descriptor.keys[k] = e.pk

\* C5: every descriptor a constructor made, and every descriptor
\* to_single_descriptors returned, holds private entries only under keys of
\* its own expression.
C5_KeyMapInExpression ==
    /\ self # <<>> => KeyMapInExpression(self[1].descriptor)
    /\ \A i \in 1..Len(ret.descs) : KeyMapInExpression(ret.descs[i])

\* a multipath descriptor with a private key, expanded: each single-path
\* descriptor carries the source's key map
C5_Witness ==
    /\ self # <<>>
    /\ is_multipath(self[1].descriptor)
    /\ self[1].descriptor.key_map # {}
    /\ ret.op = "to_single_descriptors" /\ ret.outcome = "ok"
    /\ Len(ret.descs) >= 2
    /\ \A i \in 1..Len(ret.descs) :
          /\ ret.descs[i].key_map = self[1].descriptor.key_map
          /\ ~is_multipath(ret.descs[i])

\* the lengths of the markers of a text, and the text of its i-th sub-path:
\* every marker <p1;..;pk> replaced by pi
MarkerLengths(text) ==
    {Len(text.keys[k].marker) : k \in {j \in 1..Len(text.keys) : text.keys[j].marker # <<>>}}

SubPathText(text, i) ==
    [text EXCEPT !.keys =
        [k \in 1..Len(text.keys) |->
            IF text.keys[k].marker = <<>> THEN text.keys[k]
            ELSE [text.keys[k] EXCEPT !.steps = @ \o <<Normal(text.keys[k].marker[i])>>,
                                      !.marker = <<>>]]]

\* C6: for a descriptor parsed from a text whose markers each list k
\* sub-paths, to_single_descriptors returns exactly k descriptors, and the
\* i-th is the descriptor of the text with every marker replaced by its i-th
\* sub-path, in the order the marker is written.
C6_SingleDescriptorsInMarkerOrder ==
    (ret.op = "to_single_descriptors" /\ self # <<>> /\ self[1].made.ctor = "new") =>
        \A n \in MarkerLengths(self[1].made.descriptor) :
            MarkerLengths(self[1].made.descriptor) = {n} =>
                /\ ret.outcome = "ok"
                /\ Len(ret.descs) = n
                /\ \A i \in 1..n :
                      LET single == new(SubPathText(self[1].made.descriptor, i),
                                        self[1].made.network)
                      IN  /\ single.outcome = "ok"
                          /\ ret.descs[i] = single.descriptor[1]

\* a marker written in descending order, expanded
C6_Witness ==
    /\ self # <<>>
    /\ self[1].made.ctor = "new"
    /\ Len(self[1].made.descriptor.keys) = 1
    /\ Len(self[1].made.descriptor.keys[1].marker) >= 2
    /\ self[1].made.descriptor.keys[1].marker[1] > self[1].made.descriptor.keys[1].marker[2]
    /\ ret.op = "to_single_descriptors" /\ ret.outcome = "ok"
    /\ Len(ret.descs) = Len(self[1].made.descriptor.keys[1].marker)
    /\ ret.descs[1] # ret.descs[2]

\* C7: for a descriptor made by a public-root template constructor,
\* to_string_with_secret is to_string, and the string to_string_with_secret
\* returned for it is its to_string.
C7_PublicRootSecretStringIsString ==
    (self # <<>> /\ self[1].made.ctor \in PublicConstructors) =>
        /\ to_string_with_secret(self[1].descriptor) = to_string(self[1].descriptor)
        /\ ret.op = "to_string_with_secret" => ret.string = to_string(self[1].descriptor)

C7_Witness ==
    /\ self # <<>>
    /\ self[1].made.ctor = "new_bip49_public"
    /\ self[1].made.network = "Bitcoin"
    /\ self[1].made.keychain_kind = "Internal"
    /\ ret.op = "to_string_with_secret"
    /\ ret.string = to_string(self[1].descriptor)

\* C8: a failure of max_weight_to_satisfy is of the Evaluation kind, not of
\* the Key or Miniscript kind, and comes with no weight.
C8_WeightFailureIsEvaluationKind ==
    (ret.op = "max_weight_to_satisfy" /\ ret.outcome = "err") =>
        /\ ret.kind = "Evaluation"
        /\ ret.kind \notin {"Key", "Miniscript"}
        /\ ret.wu = 0

\* C9: every constructor call with an extended root key, whatever the
\* fingerprint string, returns a value or a typed error, and the caller runs on.
C9_EveryFailureIsTypedResult ==
    (ret.op \in Constructors
        /\ (ret.op \in TemplateConstructors => RootVariant(ret.made) \in {"XPrv", "XPub"}))
    => (ret.outcome \in {"ok", "err"} /\ pc = "ready")

\* the descriptor a constructor call makes, and the i-th descriptor of an
\* expansion
AtConstruction(made) ==
    CASE made.ctor = "new" -> new(made.descriptor, made.network).descriptor[1]
      [] made.ctor \in PrivateConstructors ->
            CallPrivate(BipOf(made.ctor), made.secret_key, made.keychain_kind,
                        made.network).descriptor[1]
      [] made.ctor \in PublicConstructors ->
            CallPublic(BipOf(made.ctor), made.public_key, made.fingerprint,
                       made.keychain_kind, made.network).descriptor[1]
      [] made.ctor = "to_single_descriptors" ->
            to_single_descriptors(made.source.descriptor).descs[made.index]

\* C10: the descriptor the caller holds always has the expression and key map
\* it was made with, a descriptor kept from an expansion was made from a source
\* that had the value it was made with, and no call of to_string,
\* to_string_with_secret, is_multipath, descriptor_id, to_single_descriptors or
\* max_weight_to_satisfy, succeeding or failing, changes the descriptor it is
\* called on.
C10_NoOperationMutates ==
    /\ [](self # <<>> =>
            /\ self[1].descriptor = AtConstruction(self[1].made)
            /\ self[1].made.ctor = "to_single_descriptors" =>
                  self[1].made.source.descriptor = AtConstruction(self[1].made.source.made))
    /\ [][(self # <<>> /\ ret'.op \in Operations) => self' = self]_vars

\* a multipath descriptor with a private key, after its expansion
C10_Witness ==
    /\ self # <<>>
    /\ self[1].made.ctor = "new"
    /\ self[1].descriptor.key_map # {}
    /\ ret.op = "to_single_descriptors" /\ ret.outcome = "ok"
    /\ Len(ret.descs) >= 2
    /\ self[1].descriptor = new(self[1].made.descriptor, self[1].made.network).descriptor[1]
    /\ self[1].descriptor # ret.descs[1]

\* C11: for every descriptor whose expression is a single-key wpkh, parsed
\* from a text or built by the BIP84 templates, every outcome of
\* max_weight_to_satisfy is a weight above 0, and so is the one a call
\* returned.
C11_WpkhWeightIsPositive ==
    (self # <<>> /\ self[1].descriptor.extended_descriptor.shape = "wpkh") =>
        /\ \A r \in max_weight_to_satisfy(self[1].descriptor) : r.outcome = "ok" /\ r.wu > 0
        /\ ret.op = "max_weight_to_satisfy" => (ret.outcome = "ok" /\ ret.wu > 0)

\* the repository's test: wpkh(tprv.../84h/1h/1h/0/*) on Testnet, weighed
C11_Witness ==
    /\ self # <<>>
    /\ self[1].made.ctor = "new"
    /\ self[1].made.network = "Testnet"
    /\ self[1].made.descriptor =
          [shape |-> "wpkh",
           keys |-> <<KeyText("xprv", <<>>, MasterXprv("K1"), TextAccount \o <<Normal(0)>>, <<>>)>>]
    /\ ret.op = "max_weight_to_satisfy"
    /\ ret.outcome = "ok"
    /\ ret.wu > 0

\* C12: every expansion of the descriptor the caller holds, whatever calls
\* came between, ends as its first expansion ended and returns as many
\* descriptors, with the same string at each index.
C12_ExpansionIsRepeatable ==
    (ret.op = "to_single_descriptors" /\ expanded # <<>>) =>
        /\ ret.outcome = expanded[1].first.outcome
        /\ Len(ret.descs) = Len(expanded[1].first.strings)
        /\ \A i \in 1..Len(ret.descs) : to_string(ret.descs[i]) = expanded[1].first.strings[i]

\* a multipath descriptor expanded a second time
C12_Witness ==
    /\ self # <<>>
    /\ is_multipath(self[1].descriptor)
    /\ expanded # <<>>
    /\ expanded[1].again
    /\ ret.op = "to_single_descriptors" /\ ret.outcome = "ok"
    /\ Len(ret.descs) >= 2
    /\ Len(expanded[1].first.strings) = Len(ret.descs)
    /\ expanded[1].first.strings[1] # expanded[1].first.strings[2]

\* C13: when is_multipath of the held descriptor is false, to_single_descriptors
\* succeeds with that one descriptor, expression and key map; when it is true
\* and the expansion succeeds, there are at least two descriptors and
\* is_multipath of each is false.  Stated of the expansion a call returned
\* and of the flag is_multipath returned.
C13_IsMultipathAgreesWithExpansion ==
    self # <<>> =>
        LET d == self[1].descriptor
            r == to_single_descriptors(d)
        IN  /\ ret.op = "is_multipath" => ret.flag = is_multipath(d)
            /\ ret.op = "to_single_descriptors" =>
                  (ret.outcome = r.outcome /\ ret.descs = r.descs)
            /\ ~is_multipath(d) => (r.outcome = "ok" /\ r.descs = <<d>>)
            /\ (is_multipath(d) /\ r.outcome = "ok") =>
                  /\ Len(r.descs) >= 2
                  /\ \A i \in 1..Len(r.descs) : ~is_multipath(r.descs[i])

\* a descriptor with a private key and no marker, expanded: itself
C13_Witness ==
    /\ self # <<>>
    /\ ~is_multipath(self[1].descriptor)
    /\ self[1].descriptor.key_map # {}
    /\ ret.op = "to_single_descriptors" /\ ret.outcome = "ok"
    /\ ret.descs = <<self[1].descriptor>>

\* C14: at most one call holds the client lock; a call is past its lock()
\* exactly while it holds the lock; the underlying client serves only the
\* request of the call that holds the lock, so never two at once and never a
\* shutdown, broadcast or watch_address beside an update; and a call that
\* holds the lock lets go of it only once its request has returned.
C14_ClientLockIsExclusive ==
    /\ [](/\ Cardinality(client.holders) <= 1
           /\ \A h \in Calls :
                 (h \in client.holders) <=> (calls[h].at \in {"locked", "requesting", "returned"})
           /\ node.serving \subseteq client.holders
           /\ \A u \in node.serving :
                 /\ calls[u].at = "requesting"
                 /\ \A o \in Calls \ {u} : calls[o].at \notin {"requesting", "returned"})
    /\ [][\A c \in client.holders :
              c \notin client'.holders => (calls[c].at = "returned" /\ c \notin node.serving)]_vars

\* an update is with the underlying client; a shutdown and a broadcast
\* issued meanwhile wait for the lock, in that order
C14_Witness ==
    \E u \in Calls :
        /\ calls[u].op = "update" /\ calls[u].at = "requesting"
        /\ client.holders = {u}
        /\ node.serving = {u}
        /\ Len(client.waiters) = 2
        /\ calls[client.waiters[1]].op = "shutdown" /\ calls[client.waiters[1]].at = "locking"
        /\ calls[client.waiters[2]].op = "broadcast" /\ calls[client.waiters[2]].at = "locking"

====
